---- MODULE Spec2Model ----
(***************************************************************************)
(* Model of the chatbot component: PALInterpreter (numeric evaluator),     *)
(* OllamaService (gateway, classifier, 3-stage pipeline) and the Chatbot   *)
(* conversation controller.                                                *)
(*                                                                         *)
(* A JavaScript string is a sequence of one-character strings.  A BigInt   *)
(* is a sign and a magnitude; a magnitude is a sequence of decimal digits, *)
(* most significant first, without leading zeros (zero is <<0>>), so the   *)
(* arithmetic has no width.                                                *)
(***************************************************************************)
EXTENDS Integers, Sequences, FiniteSets, Bags, TLC

----------------------------------------------------------------------------
(* Strings *)

DigitChars == <<"0", "1", "2", "3", "4", "5", "6", "7", "8", "9">>

IsDigit(c) == \E i \in 1..10 : DigitChars[i] = c

DigitVal(c) == (CHOOSE i \in 1..10 : DigitChars[i] = c) - 1

DigitChar(d) == DigitChars[d + 1]

\* the characters the regular expression class \s matches, of those the model uses
IsSpace(c) == c \in {" ", "\n", "\t"}

IsOpChar(c) == c \in {"+", "-", "*", "/"}

\* the least and the greatest element of a non-empty set of integers
Least(S) == CHOOSE i \in S : \A j \in S : i <= j

Greatest(S) == CHOOSE i \in S : \A j \in S : j <= i

\* String.prototype.trim
Trim(s) ==
  LET kept == {i \in 1..Len(s) : ~IsSpace(s[i])}
  IN IF kept = {} THEN <<>> ELSE SubSeq(s, Least(kept), Greatest(kept))

\* s.replace(/\s+/g, '')
StripSpaces(s) == LET NotSpace(c) == ~IsSpace(c) IN SelectSeq(s, NotSpace)

\* the end of the maximal run of digits of s that starts at i (i - 1 when s[i] is no digit)
DigitRunEnd(s, i) ==
  LET stops == {j \in i..Len(s) : ~IsDigit(s[j])}
  IN IF stops # {} THEN Least(stops) - 1 ELSE IF i > Len(s) THEN i - 1 ELSE Len(s)

\* s.includes(sub)
Includes(s, sub) ==
  \E i \in 1..(Len(s) - Len(sub) + 1) : SubSeq(s, i, i + Len(sub) - 1) = sub

----------------------------------------------------------------------------
(* Arbitrary-precision naturals: digit sequences *)

StripZeros(d) ==
  IF \A i \in DOMAIN d : d[i] = 0 THEN <<0>>
  ELSE SubSeq(d, CHOOSE i \in DOMAIN d : d[i] # 0 /\ \A j \in 1..(i - 1) : d[j] = 0, Len(d))

\* the digit of a of weight 10^i
DigitAt(a, i) == IF i < Len(a) THEN a[Len(a) - i] ELSE 0

\* the digits of a + b, one more than the longer has; leading zeros may come in and
\* go out.  A carry enters position i when a lower position generates one and every
\* position in between passes it on.
AddDigits(a, b) ==
  LET n == (IF Len(a) > Len(b) THEN Len(a) ELSE Len(b)) + 1
      sum == [i \in 0..(n - 1) |-> DigitAt(a, i) + DigitAt(b, i)]
      carry == [i \in 0..(n - 1) |->
                  IF \E j \in 0..(i - 1) :
                       sum[j] >= 10 /\ \A h \in (j + 1)..(i - 1) : sum[h] = 9
                  THEN 1 ELSE 0]
  IN [i \in 1..n |-> (sum[n - i] + carry[n - i]) % 10]

NatAdd(a, b) == StripZeros(AddDigits(a, b))

\* a < b, for magnitudes without leading zeros
NatLess(a, b) ==
  IF Len(a) # Len(b) THEN Len(a) < Len(b)
  ELSE \E i \in 1..Len(a) : a[i] < b[i] /\ \A j \in 1..(i - 1) : a[j] = b[j]

NatLeq(a, b) == a = b \/ NatLess(a, b)

\* a - b for a >= b: position i borrows when the digits of a below it are less than b's
NatSub(a, b) ==
  LET n == Len(a)
      borrow == [i \in 0..(n - 1) |->
                   IF \E j \in 0..(i - 1) :
                        /\ DigitAt(a, j) < DigitAt(b, j)
                        /\ \A h \in (j + 1)..(i - 1) : DigitAt(a, h) = DigitAt(b, h)
                   THEN 1 ELSE 0]
  IN StripZeros([i \in 1..n |->
                   (DigitAt(a, n - i) - DigitAt(b, n - i) - borrow[n - i] + 10) % 10])

\* the schoolbook product: the column sums, then the carries.  A column sum has at
\* most four decimal digits; the digits of each weight make one summand.
NatMul(a, b) ==
  LET n == Len(a) + Len(b)
      column == [i \in 0..(n - 1) |->
                   BagCardinality([j \in {j \in 0..i : DigitAt(a, j) * DigitAt(b, i - j) > 0}
                                     |-> DigitAt(a, j) * DigitAt(b, i - j)])]
      part(k) == [i \in 1..(n + 3) |->
                    LET w == n + 3 - i - k
                    IN IF w >= 0 /\ w < n THEN (column[w] \div 10^k) % 10 ELSE 0]
  IN StripZeros(AddDigits(AddDigits(part(0), part(1)), AddDigits(part(2), part(3))))

\* b * t for a digit t: the units and the tens of the digit products
MulDigit(b, t) ==
  StripZeros(AddDigits([i \in 1..Len(b) |-> (b[i] * t) % 10],
                       [i \in 1..(Len(b) + 1) |-> IF i <= Len(b) THEN (b[i] * t) \div 10 ELSE 0]))

\* the largest t in 0..9 with b * t <= r, for r < 10 * b
QuotDigit(r, b) == Cardinality({t \in 1..9 : NatLeq(MulDigit(b, t), r)})

\* long division: the digits a, at least one, are brought down onto the remainder
\* r < b; the result has one quotient digit for each digit of a.  The upper half of
\* the digits is divided first and its remainder carried into the lower half.
RECURSIVE LongDiv(_, _, _)
LongDiv(r, a, b) ==
  IF Len(a) > 1
  THEN LET upper == LongDiv(r, SubSeq(a, 1, Len(a) \div 2), b)
           lower == LongDiv(upper.rem, SubSeq(a, Len(a) \div 2 + 1, Len(a)), b)
       IN [quot |-> upper.quot \o lower.quot, rem |-> lower.rem]
  ELSE LET r1 == StripZeros(r \o a)
           t == QuotDigit(r1, b)
       IN [quot |-> <<t>>, rem |-> NatSub(r1, MulDigit(b, t))]

\* 10^k as a magnitude
Pow10(k) == [i \in 1..(k + 1) |-> IF i = 1 THEN 1 ELSE 0]

\* a * 10^k
Shift(a, k) == IF a = <<0>> THEN a ELSE a \o [i \in 1..k |-> 0]

\* the quotient and the remainder of a by b # 0.  A power of ten cuts a in two;
\* otherwise the leading digits of a that cannot reach b start as the remainder.
NatDivMod(a, b) ==
  IF NatLess(a, b) THEN [quot |-> <<0>>, rem |-> a]
  ELSE IF b = Pow10(Len(b) - 1)
  THEN [quot |-> SubSeq(a, 1, Len(a) - Len(b) + 1),
        rem |-> StripZeros(SubSeq(a, Len(a) - Len(b) + 2, Len(a)))]
  ELSE LET d == LongDiv(StripZeros(SubSeq(a, 1, Len(b) - 1)), SubSeq(a, Len(b), Len(a)), b)
       IN [quot |-> StripZeros(d.quot), rem |-> d.rem]

\* floor(a / b) for b # 0
NatDiv(a, b) == NatDivMod(a, b).quot

NatZero == <<0>>

----------------------------------------------------------------------------
(* JavaScript values.  Every value is a record tagged by k. *)

Undefined == [k |-> "undefined"]

\* a string value; s is its sequence of characters
StrV(s) == [k |-> "string", s |-> s]

\* the value of an Error's message property
Msg(text) == [k |-> "message", text |-> text]

\* what executeMathExpression and evaluateBigInt return
PalOk(result, formatted) ==
  [success |-> TRUE, result |-> result, formatted |-> formatted, error |-> Undefined]

PalErr(message) ==
  [success |-> FALSE, result |-> Undefined, formatted |-> Undefined, error |-> Msg(message)]

----------------------------------------------------------------------------
(* PALInterpreter.evaluateBigInt *)

SkipSpaces(s, i) ==
  LET stops == {j \in i..Len(s) : ~IsSpace(s[j])}
  IN IF stops # {} THEN Least(stops) ELSE IF i > Len(s) THEN i ELSE Len(s) + 1

\* a match of (\d+)\s*([+\-*/])\s*(\d+) that starts at i: \d+ is greedy, and giving
\* digits back never helps, since the next character would then be a digit
MatchAt(s, i) ==
  LET j == DigitRunEnd(s, i)
      o == SkipSpaces(s, j + 1)
      m == SkipSpaces(s, o + 1)
  IN IF /\ IsDigit(s[i])
        /\ o <= Len(s) /\ IsOpChar(s[o])
        /\ m <= Len(s) /\ IsDigit(s[m])
     THEN [found |-> TRUE, num1 |-> SubSeq(s, i, j), op |-> s[o],
           num2 |-> SubSeq(s, m, DigitRunEnd(s, m)), from |-> i,
           to |-> DigitRunEnd(s, m)]
     ELSE [found |-> FALSE]

\* a variant that anchors the pattern at both ends of the expression
MatchBinaryAnchored(expr) ==
  IF expr # <<>> /\ MatchAt(expr, 1).found /\ MatchAt(expr, 1).to = Len(expr)
  THEN MatchAt(expr, 1) ELSE [found |-> FALSE]

\* expr.match(/(\d+)\s*([+\-*/])\s*(\d+)/): the leftmost match; the pattern is not anchored
MatchBinary(expr) ==
  IF \E i \in 1..Len(expr) : MatchAt(expr, i).found
  THEN MatchAt(expr, CHOOSE i \in 1..Len(expr) :
                       /\ MatchAt(expr, i).found
                       /\ \A h \in 1..(i - 1) : ~MatchAt(expr, h).found)
  ELSE [found |-> FALSE]

\* BigInt(num) for a string of decimal digits
BigInt(num) == [neg |-> FALSE, mag |-> StripZeros([i \in 1..Len(num) |-> DigitVal(num[i])])]

\* BigInt.prototype.toString
BigIntToString(v) ==
  (IF v.neg THEN <<"-">> ELSE <<>>) \o [i \in 1..Len(v.mag) |-> DigitChar(v.mag[i])]

\* a / b rounded to the nearest integer, half up, in place of truncation
BigDivRounded(a, b) ==
  LET qr == NatDivMod(a.mag, b.mag)
  IN [neg |-> FALSE,
      mag |-> IF NatLeq(b.mag, NatAdd(qr.rem, qr.rem)) THEN NatAdd(qr.quot, <<1>>) ELSE qr.quot]

\* a / b on BigInts, b # 0: the quotient truncated towards zero (operands are not negative)
BigDiv(a, b) == [neg |-> FALSE, mag |-> NatDiv(a.mag, b.mag)]

BigSub(a, b) ==
  IF NatLeq(b.mag, a.mag) THEN [neg |-> FALSE, mag |-> NatSub(a.mag, b.mag)]
  ELSE [neg |-> TRUE, mag |-> NatSub(b.mag, a.mag)]

evaluateBigInt(expr) ==
  LET match == MatchBinary(expr)
  IN IF ~match.found THEN PalErr("Complex expression not supported")
     ELSE LET a == BigInt(match.num1)
              b == BigInt(match.num2)
          IN IF match.op = "/" /\ b.mag = NatZero
             THEN PalErr("Division by zero")   \* RangeError thrown by a / b, caught
             ELSE LET result ==
                        CASE match.op = "+" -> [neg |-> FALSE, mag |-> NatAdd(a.mag, b.mag)]
                          [] match.op = "-" -> BigSub(a, b)
                          [] match.op = "*" -> [neg |-> FALSE, mag |-> NatMul(a.mag, b.mag)]
                          [] match.op = "/" -> BigDiv(a, b)
                  IN PalOk(StrV(BigIntToString(result)), StrV(BigIntToString(result)))

\* the length of the digit runs the exact path is taken for
LargeDigits == 10

\* /\d{10,}/.test(cleaned)
HasLargeNumbers(cleaned) ==
  \E i \in 1..Len(cleaned) : DigitRunEnd(cleaned, i) - i + 1 >= LargeDigits

----------------------------------------------------------------------------
(* Numbers.  A finite Number is an exact fraction n/d with a sign (zero keeps its   *)
(* sign).  The fraction is not always in lowest terms: NumEq tells whether two      *)
(* Numbers are the same.  The rounding of binary floating point is not modelled,    *)
(* Infinity and NaN are.                                                            *)

NatMod(a, b) == NatDivMod(a, b).rem

NatOne == <<1>>

\* the number of zeros a magnitude ends with
TrailingZeros(a) == Len(a) - Greatest({i \in 1..Len(a) : a[i] # 0} \cup {0})

\* the fraction n/d, d # 0, without the powers of ten its terms share
Fin(neg, n, d) ==
  LET z == IF TrailingZeros(n) < TrailingZeros(d) THEN TrailingZeros(n) ELSE TrailingZeros(d)
  IN IF n = NatZero THEN [k |-> "number", c |-> "fin", neg |-> neg, n |-> NatZero, d |-> NatOne]
     ELSE [k |-> "number", c |-> "fin", neg |-> neg,
           n |-> SubSeq(n, 1, Len(n) - z), d |-> SubSeq(d, 1, Len(d) - z)]

\* a and b are the same number
NumEq(a, b) ==
  /\ a.c = b.c
  /\ a.c = "fin" => NatMul(a.n, b.d) = NatMul(b.n, a.d) /\ (a.neg = b.neg \/ a.n = NatZero)
  /\ a.c = "inf" => a.neg = b.neg

Inf(neg) == [k |-> "number", c |-> "inf", neg |-> neg]

NaN == [k |-> "number", c |-> "nan"]

IsZero(a) == a.c = "fin" /\ a.n = NatZero

\* -a
NumNeg(a) == IF a.c = "nan" THEN NaN ELSE [a EXCEPT !.neg = ~a.neg]

NumAdd(a, b) ==
  IF a.c = "nan" \/ b.c = "nan" THEN NaN
  ELSE IF a.c = "inf" /\ b.c = "inf" THEN (IF a.neg = b.neg THEN a ELSE NaN)
  ELSE IF a.c = "inf" THEN a
  ELSE IF b.c = "inf" THEN b
  ELSE LET x == NatMul(a.n, b.d)
           y == NatMul(b.n, a.d)
           d == NatMul(a.d, b.d)
       IN IF a.neg = b.neg THEN Fin(a.neg, NatAdd(x, y), d)
          ELSE IF x = y THEN Fin(FALSE, NatZero, NatOne)
          ELSE IF NatLess(y, x) THEN Fin(a.neg, NatSub(x, y), d)
          ELSE Fin(b.neg, NatSub(y, x), d)

NumSub(a, b) == NumAdd(a, NumNeg(b))

NumMul(a, b) ==
  IF a.c = "nan" \/ b.c = "nan" THEN NaN
  ELSE IF a.c = "inf" \/ b.c = "inf"
       THEN (IF IsZero(a) \/ IsZero(b) THEN NaN ELSE Inf(a.neg # b.neg))
  ELSE Fin(a.neg # b.neg, NatMul(a.n, b.n), NatMul(a.d, b.d))

NumDiv(a, b) ==
  IF a.c = "nan" \/ b.c = "nan" THEN NaN
  ELSE IF a.c = "inf" THEN (IF b.c = "inf" THEN NaN ELSE Inf(a.neg # b.neg))
  ELSE IF b.c = "inf" THEN Fin(a.neg # b.neg, NatZero, NatOne)
  ELSE IF IsZero(b) THEN (IF IsZero(a) THEN NaN ELSE Inf(a.neg # b.neg))
  ELSE Fin(a.neg # b.neg, NatMul(a.n, b.d), NatMul(a.d, b.n))

\* a ** e for a finite a and an integer e >= 0, by repeated multiplication
RECURSIVE NumPowNat(_, _)
NumPowNat(a, e) ==
  IF e = NatZero THEN Fin(FALSE, NatOne, NatOne)
  ELSE NumMul(a, NumPowNat(a, NatSub(e, NatOne)))

\* a ** b, where the model covers it: NaN operands, a zero exponent, and a finite base
\* with an integer exponent
NumPow(a, b) ==
  CASE b.c = "nan" -> NaN
    [] IsZero(b) -> Fin(FALSE, NatOne, NatOne)
    [] b.c # "nan" /\ ~IsZero(b) /\ a.c = "nan" -> NaN
    [] a.c = "fin" /\ b.c = "fin" /\ ~IsZero(b) /\ NatMod(b.n, b.d) = NatZero ->
         IF b.neg THEN NumDiv(Fin(FALSE, NatOne, NatOne), NumPowNat(a, NatDiv(b.n, b.d)))
         ELSE NumPowNat(a, NatDiv(b.n, b.d))

\* |a| < |b| for finite a, b
AbsLess(a, b) == NatLess(NatMul(a.n, b.d), NatMul(b.n, a.d))

----------------------------------------------------------------------------
(* PALInterpreter.formatNumber *)

\* Math.abs(num) < 0.0001 is Math.abs(num) < 10^-SmallExp
SmallExp == 4

\* Math.abs(num) > 1e10 is Math.abs(num) > 10^LargeExp
LargeExp == 10

\* num.toExponential(4)
ExpDigits == 4

\* Math.round(num * 1e6) / 1e6
RoundDigits == 6

\* the decimal digits of a natural number of the model's own integers
RECURSIVE IntToChars(_)
IntToChars(i) ==
  IF i < 10 THEN <<DigitChar(i)>> ELSE IntToChars(i \div 10) \o <<DigitChar(i % 10)>>

\* the e with 10^e <= n/d < 10^(e+1), for n/d > 0: the difference of the lengths, or
\* one less
Exponent10(n, d) ==
  LET g == Len(n) - Len(d)
  IN IF (IF g >= 0 THEN NatLeq(Shift(d, g), n) ELSE NatLeq(d, Shift(n, -g)))
     THEN g ELSE g - 1

\* the quotient of qr, a division by d, or one more: the next integer when the
\* remainder is half of d (if ties go up) or more
RoundUp(qr, d, tiesUp) ==
  IF qr.rem = NatZero THEN qr.quot
  ELSE IF NatLess(d, NatAdd(qr.rem, qr.rem)) \/ (tiesUp /\ d = NatAdd(qr.rem, qr.rem))
       THEN NatAdd(qr.quot, NatOne) ELSE qr.quot

\* floor(n/d + 1/2)
RoundHalfUp(n, d) == RoundUp(NatDivMod(n, d), d, TRUE)

\* ceil(n/d - 1/2), for n/d >= 1/2
RoundHalfDown(n, d) == RoundUp(NatDivMod(n, d), d, FALSE)

\* Number.prototype.toExponential(f): the characters
toExponential(num, f) ==
  IF num.c = "nan" THEN <<"N", "a", "N">>
  ELSE IF num.c = "inf"
       THEN (IF num.neg THEN <<"-">> ELSE <<>>) \o <<"I", "n", "f", "i", "n", "i", "t", "y">>
  ELSE IF IsZero(num)
       THEN <<"0", ".">> \o [i \in 1..f |-> "0"] \o <<"e", "+", "0">>
  ELSE LET e0 == Exponent10(num.n, num.d)
           \* num * 10^(f - e0), rounded to an integer, ties upwards
           m0 == IF f - e0 >= 0
                 THEN RoundHalfUp(Shift(num.n, f - e0), num.d)
                 ELSE RoundHalfUp(num.n, Shift(num.d, e0 - f))
           carry == Len(m0) > f + 1
           e == IF carry THEN e0 + 1 ELSE e0
           m == IF carry THEN Pow10(f) ELSE m0
       IN (IF num.neg THEN <<"-">> ELSE <<>>)
          \o <<DigitChar(m[1]), ".">> \o [i \in 1..f |-> DigitChar(m[i + 1])]
          \o <<"e", IF e < 0 THEN "-" ELSE "+">> \o IntToChars(IF e < 0 THEN -e ELSE e)

\* Math.round(x): floor(x + 1/2), so ties go up
MathRound(x) ==
  IF x.c # "fin" THEN x
  ELSE IF ~x.neg THEN Fin(FALSE, RoundHalfUp(x.n, x.d), NatOne)
  ELSE IF NatLess(NatMul(x.n, <<2>>), x.d) THEN Fin(TRUE, NatZero, NatOne)
  ELSE Fin(TRUE, RoundHalfDown(x.n, x.d), NatOne)

\* Math.abs(num) < 0.0001 || Math.abs(num) > 1e10
OutOfPlainRange(num) ==
  \/ num.c = "fin" /\ NatLess(Shift(num.n, SmallExp), num.d)
  \/ num.c = "inf"
  \/ num.c = "fin" /\ NatLess(Shift(num.d, LargeExp), num.n)

\* String(num) for a value that is neither a string nor a number: a RegExp object
ToStringObject(v) == StrV(<<"/">> \o v.body \o <<"/">>)

formatNumber(num) ==
  IF num.k = "string" THEN num
  ELSE IF num.k # "number" THEN ToStringObject(num)
  ELSE IF OutOfPlainRange(num) THEN StrV(toExponential(num, ExpDigits))
  ELSE NumDiv(MathRound(NumMul(num, Fin(FALSE, Pow10(RoundDigits), NatOne))),
              Fin(FALSE, Pow10(RoundDigits), NatOne))

----------------------------------------------------------------------------
(* Function(`"use strict"; return (${cleaned})`)(): the JavaScript the engine    *)
(* accepts over the characters 0-9 + - * / ( ) . , read from the language's      *)
(* grammar.  The source text is the expression between the template's            *)
(* parentheses.                                                                  *)

Punct(c) == [t |-> "p", c |-> c]

NumTok(v) == [t |-> "num", v |-> v]

RegexTok(body) == [t |-> "regex", body |-> body]

\* a token the lexer rejects
BadTok == [t |-> "bad"]

DigitsOf(chars) == StripZeros([i \in 1..Len(chars) |-> DigitVal(chars[i])])

\* a numeric literal that starts at i: its value and the position after it.  In strict
\* mode an integer part with a leading zero (00, 012, 09) is a syntax error.
NumLit(src, i) ==
  IF src[i] = "."
  THEN LET e == DigitRunEnd(src, i + 1)
       IN [ok |-> TRUE, next |-> e + 1,
           v |-> Fin(FALSE, DigitsOf(SubSeq(src, i + 1, e)), Pow10(e - i))]
  ELSE LET j == DigitRunEnd(src, i)
       IN IF j > i /\ src[i] = "0" THEN [ok |-> FALSE, next |-> j + 1, v |-> Undefined]
          ELSE IF j < Len(src) /\ src[j + 1] = "."
          THEN LET e == DigitRunEnd(src, j + 2)
               IN [ok |-> TRUE, next |-> e + 1,
                   v |-> Fin(FALSE, DigitsOf(SubSeq(src, i, j) \o SubSeq(src, j + 2, e)),
                             Pow10(e - j - 1))]
          ELSE [ok |-> TRUE, next |-> j + 1, v |-> Fin(FALSE, DigitsOf(SubSeq(src, i, j)), NatOne)]

\* a regular expression body over the same characters: the parentheses balance and
\* each quantifier (+ or *) follows an atom
RECURSIVE RegexOk(_, _, _, _)
RegexOk(body, i, depth, canQuantify) ==
  IF i > Len(body) THEN depth = 0
  ELSE CASE body[i] \in {"+", "*"} -> canQuantify /\ RegexOk(body, i + 1, depth, FALSE)
         [] body[i] = "(" -> RegexOk(body, i + 1, depth + 1, FALSE)
         [] body[i] = ")" -> depth > 0 /\ RegexOk(body, i + 1, depth - 1, TRUE)
         [] OTHER -> RegexOk(body, i + 1, depth, TRUE)

\* the first position >= i where sub occurs in src, or 0
FirstAt(src, sub, i) ==
  LET hits == {j \in i..(Len(src) - Len(sub) + 1) : SubSeq(src, j, j + Len(sub) - 1) = sub}
  IN IF hits = {} THEN 0 ELSE CHOOSE j \in hits : \A h \in hits : j <= h

\* the tokens of src from position i on; afterOperand tells whether a / divides or
\* starts a regular expression literal
RECURSIVE Tokenize(_, _, _)
Tokenize(src, i, afterOperand) ==
  IF i > Len(src) THEN <<>>
  ELSE LET c == src[i]
           next == IF i < Len(src) THEN src[i + 1] ELSE ""
       IN CASE IsDigit(c) \/ (c = "." /\ IsDigit(next)) ->
                 LET lit == NumLit(src, i)
                 IN IF lit.ok THEN <<NumTok(lit.v)>> \o Tokenize(src, lit.next, TRUE)
                    ELSE <<BadTok>>
            [] c = "." /\ ~IsDigit(next) -> <<Punct(".")>> \o Tokenize(src, i + 1, FALSE)
            [] c \in {"+", "-", "*"} ->
                 IF next = c THEN <<Punct(c \o c)>> \o Tokenize(src, i + 2, FALSE)
                 ELSE <<Punct(c)>> \o Tokenize(src, i + 1, FALSE)
            [] c = "(" -> <<Punct("(")>> \o Tokenize(src, i + 1, FALSE)
            [] c = ")" -> <<Punct(")")>> \o Tokenize(src, i + 1, TRUE)
            [] c = "/" /\ next = "/" -> <<>>      \* a comment to the end of the source
            [] c = "/" /\ next = "*" ->
                 LET close == FirstAt(src, <<"*", "/">>, i + 2)
                 IN IF close = 0 THEN <<BadTok>> ELSE Tokenize(src, close + 2, afterOperand)
            [] c = "/" /\ next \notin {"/", "*"} /\ afterOperand ->
                 <<Punct("/")>> \o Tokenize(src, i + 1, FALSE)
            [] c = "/" /\ next \notin {"/", "*"} /\ ~afterOperand ->
                 LET close == FirstAt(src, <<"/">>, i + 1)
                 IN IF close = 0 THEN <<BadTok>>                    \* unterminated
                    ELSE IF close < Len(src) /\ IsDigit(src[close + 1])
                    THEN <<BadTok>>                                 \* a digit is no flag
                    ELSE IF ~RegexOk(SubSeq(src, i + 1, close - 1), 1, 0, FALSE)
                    THEN <<BadTok>>
                    ELSE <<RegexTok(SubSeq(src, i + 1, close - 1))>>
                         \o Tokenize(src, close + 1, TRUE)


(* Evaluation.  Besides Numbers an expression can yield a RegExp object, a string   *)
(* (the concatenation that + makes of an object and another value, kept as its two  *)
(* parts), or throw a TypeError when it calls a value that is no function.          *)

RegExpV(body) == [k |-> "regexp", body |-> body]

ConcatV(a, b) == [k |-> "string", of |-> <<a, b>>]

Thrown == [k |-> "throw", error |-> "TypeError"]

\* ToNumber: the string form of a RegExp, and any string that holds one, is no numeral
ToNumber(v) == IF v.k = "number" THEN v ELSE NaN

ApplyBinary(op, a, b) ==
  IF a.k = "throw" \/ b.k = "throw" THEN Thrown
  ELSE CASE op = "+" -> IF a.k = "number" /\ b.k = "number" THEN NumAdd(a, b)
                        ELSE ConcatV(a, b)
         [] op = "-" -> NumSub(ToNumber(a), ToNumber(b))
         [] op = "*" -> NumMul(ToNumber(a), ToNumber(b))
         [] op = "/" -> NumDiv(ToNumber(a), ToNumber(b))
         [] op = "**" -> NumPow(ToNumber(a), ToNumber(b))

ApplyUnary(op, a) ==
  IF a.k = "throw" THEN Thrown
  ELSE IF op = "-" THEN NumNeg(ToNumber(a)) ELSE ToNumber(a)

\* a parse: ok, the value of what was parsed, the tokens left
Parsed(v, rest) == [ok |-> TRUE, v |-> v, rest |-> rest]

\* a SyntaxError
NoParse == [ok |-> FALSE, v |-> Undefined, rest |-> <<>>]

NextIs(ts, c) == ts # <<>> /\ Head(ts) = Punct(c)

(* The parse.  An expression is kept as a tree: a literal, a unary or binary      *)
(* operation, or a call.  Each production is written as the production proper and *)
(* an operator that goes on from the parse of its first part.                     *)

Literal(v) == [a |-> "lit", v |-> v]

Unary(op, e) == [a |-> "un", op |-> op, e |-> e]

Binary(op, l, r) == [a |-> "bin", op |-> op, l |-> l, r |-> r]

Call(f) == [a |-> "call", f |-> f]

RECURSIVE PAdditive(_), PAdditiveFrom(_), PAdditiveRest(_, _), PAdditiveNext(_, _, _),
          PMultiplicative(_), PMultiplicativeFrom(_), PMultiplicativeRest(_, _),
          PMultiplicativeNext(_, _, _), PExponent(_), PExponentFrom(_, _),
          PExponentNext(_, _), PUnary(_), PUnaryFrom(_, _), PPostfix(_), PPostfixFrom(_),
          PCall(_), PCallFrom(_), PCallRest(_, _), PCallArguments(_, _), PPrimary(_),
          PParenthesized(_)

\* AdditiveExpression
PAdditive(ts) == PAdditiveFrom(PMultiplicative(ts))

PAdditiveFrom(l) == IF l.ok THEN PAdditiveRest(l.v, l.rest) ELSE NoParse

PAdditiveRest(acc, ts) ==
  IF NextIs(ts, "+") \/ NextIs(ts, "-")
  THEN PAdditiveNext(acc, Head(ts).c, PMultiplicative(Tail(ts)))
  ELSE Parsed(acc, ts)

PAdditiveNext(acc, op, r) ==
  IF r.ok THEN PAdditiveRest(Binary(op, acc, r.v), r.rest) ELSE NoParse

\* MultiplicativeExpression
PMultiplicative(ts) == PMultiplicativeFrom(PExponent(ts))

PMultiplicativeFrom(l) == IF l.ok THEN PMultiplicativeRest(l.v, l.rest) ELSE NoParse

PMultiplicativeRest(acc, ts) ==
  IF NextIs(ts, "*") \/ NextIs(ts, "/")
  THEN PMultiplicativeNext(acc, Head(ts).c, PExponent(Tail(ts)))
  ELSE Parsed(acc, ts)

PMultiplicativeNext(acc, op, r) ==
  IF r.ok THEN PMultiplicativeRest(Binary(op, acc, r.v), r.rest) ELSE NoParse

\* ExponentiationExpression: right associative; a unary expression is no base of **
PExponent(ts) == PExponentFrom(ts, PUnary(ts))

PExponentFrom(ts, b) ==
  IF b.ok /\ NextIs(b.rest, "**")
  THEN IF NextIs(ts, "+") \/ NextIs(ts, "-") THEN NoParse
       ELSE PExponentNext(b.v, PExponent(Tail(b.rest)))
  ELSE b

PExponentNext(base, e) == IF e.ok THEN Parsed(Binary("**", base, e.v), e.rest) ELSE NoParse

\* UnaryExpression; the operand of ++ and -- is never a reference, so they never parse
PUnary(ts) ==
  IF NextIs(ts, "+") \/ NextIs(ts, "-") THEN PUnaryFrom(Head(ts).c, PUnary(Tail(ts)))
  ELSE IF NextIs(ts, "++") \/ NextIs(ts, "--") THEN NoParse
  ELSE PPostfix(ts)

PUnaryFrom(op, u) == IF u.ok THEN Parsed(Unary(op, u.v), u.rest) ELSE NoParse

PPostfix(ts) == PPostfixFrom(PCall(ts))

PPostfixFrom(c) ==
  IF c.ok /\ (NextIs(c.rest, "++") \/ NextIs(c.rest, "--")) THEN NoParse ELSE c

\* CallExpression and MemberExpression; after a . there is never a property name
PCall(ts) == PCallFrom(PPrimary(ts))

PCallFrom(p) == IF p.ok THEN PCallRest(p.v, p.rest) ELSE NoParse

PCallRest(f, ts) ==
  IF NextIs(ts, "(")
  THEN IF NextIs(Tail(ts), ")") THEN PCallRest(Call(f), Tail(Tail(ts)))
       ELSE PCallArguments(f, PAdditive(Tail(ts)))
  ELSE IF NextIs(ts, ".") THEN NoParse
  ELSE Parsed(f, ts)

PCallArguments(f, arg) ==
  IF arg.ok /\ NextIs(arg.rest, ")") THEN PCallRest(Call(f), Tail(arg.rest)) ELSE NoParse

\* PrimaryExpression: a literal or a parenthesized expression
PPrimary(ts) ==
  IF ts = <<>> THEN NoParse
  ELSE CASE Head(ts).t = "num" -> Parsed(Literal(Head(ts).v), Tail(ts))
         [] Head(ts).t = "regex" -> Parsed(Literal(RegExpV(Head(ts).body)), Tail(ts))
         [] Head(ts) = Punct("(") -> PParenthesized(PAdditive(Tail(ts)))
         [] OTHER -> NoParse

PParenthesized(e) ==
  IF e.ok /\ NextIs(e.rest, ")") THEN Parsed(e.v, Tail(e.rest)) ELSE NoParse

\* the value of a parsed expression; a call of a Number, a RegExp or a string throws
\* a TypeError
RECURSIVE Evaluated(_)
Evaluated(e) ==
  CASE e.a = "lit" -> e.v
    [] e.a = "un" -> ApplyUnary(e.op, Evaluated(e.e))
    [] e.a = "bin" -> ApplyBinary(e.op, Evaluated(e.l), Evaluated(e.r))
    [] e.a = "call" -> Thrown

\* a source that does not parse throws a SyntaxError before anything is evaluated
EvalParsed(r) ==
  IF ~r.ok \/ r.rest # <<>> THEN [k |-> "throw", error |-> "SyntaxError"]
  ELSE Evaluated(r.v)

\* the value of Function(`"use strict"; return (${cleaned})`)(), or what it throws
EvalFunction(cleaned) ==
  EvalParsed(PAdditive(Tokenize(<<"(">> \o cleaned \o <<")">>, 1, FALSE)))

----------------------------------------------------------------------------
(* PALInterpreter.executeMathExpression *)

\* the test applied to the expression as given, spaces included
HasLargeNumbersRaw(expression, cleaned) == HasLargeNumbers(expression)

\* hasLargeNumbers: the test is applied to the cleaned expression
LargeNumberTest(expression, cleaned) == HasLargeNumbers(cleaned)

\* lines 20-31: the result of the evaluation, or the message of what it threw
PalResultOf(result) ==
  IF result.k = "throw" THEN PalErr(result.error) ELSE PalOk(result, formatNumber(result))

executeMathExpression(expression) ==
  LET cleaned == StripSpaces(Trim(expression))
  IN IF LargeNumberTest(expression, cleaned) THEN evaluateBigInt(cleaned)
     ELSE PalResultOf(EvalFunction(cleaned))

----------------------------------------------------------------------------
(* OllamaService.isMathQuery *)

UpperChars == <<"A", "B", "C", "D", "E", "F", "G", "H", "I", "J", "K", "L", "M", "N", "O", "P", "Q", "R", "S", "T", "U", "V", "W", "X", "Y", "Z">>

LowerChars == <<"a", "b", "c", "d", "e", "f", "g", "h", "i", "j", "k", "l", "m", "n", "o", "p", "q", "r", "s", "t", "u", "v", "w", "x", "y", "z">>

\* String.prototype.toLowerCase, on the letters A-Z
ToLowerCase(s) ==
  [i \in 1..Len(s) |->
     IF \E j \in 1..26 : UpperChars[j] = s[i]
     THEN LowerChars[CHOOSE j \in 1..26 : UpperChars[j] = s[i]] ELSE s[i]]

mathKeywords ==
  << <<"c", "a", "l", "c", "u", "l", "a", "t", "e">>,
     <<"c", "o", "m", "p", "u", "t", "e">>,
     <<"s", "o", "l", "v", "e">>,
     <<"w", "h", "a", "t", " ", "i", "s">>,
     <<"h", "o", "w", " ", "m", "u", "c", "h">>,
     <<"s", "u", "m">>,
     <<"d", "i", "f", "f", "e", "r", "e", "n", "c", "e">>,
     <<"p", "r", "o", "d", "u", "c", "t">>,
     <<"q", "u", "o", "t", "i", "e", "n", "t">>,
     <<"a", "v", "e", "r", "a", "g", "e">>,
     <<"p", "e", "r", "c", "e", "n", "t", "a", "g", "e">>,
     <<"p", "e", "r", "c", "e", "n", "t">>,
     <<"a", "d", "d">>,
     <<"s", "u", "b", "t", "r", "a", "c", "t">>,
     <<"m", "u", "l", "t", "i", "p", "l", "y">>,
     <<"d", "i", "v", "i", "d", "e">>,
     <<"p", "l", "u", "s">>,
     <<"m", "i", "n", "u", "s">>,
     <<"t", "i", "m", "e", "s">> >>

\* /\d+[\s]*[+\-*/^%][\s]*\d+/.test(query)
HasArithmetic(query) ==
  \E i \in 1..Len(query) :
    LET o == SkipSpaces(query, DigitRunEnd(query, i) + 1)
        m == SkipSpaces(query, o + 1)
    IN /\ IsDigit(query[i])
       /\ o <= Len(query) /\ query[o] \in {"+", "-", "*", "/", "^", "%"}
       /\ m <= Len(query) /\ IsDigit(query[m])

isMathQuery(query) ==
  LET lowerQuery == ToLowerCase(query)
      hasKeyword == \E n \in 1..Len(mathKeywords) : Includes(lowerQuery, mathKeywords[n])
  IN hasKeyword \/ HasArithmetic(query)

----------------------------------------------------------------------------
(* OllamaService.solveWithPipeline: the sanitization of the extracted text *)

\* a variant of the class that keeps the digits only
IsAllowedCharDigitsOnly(c) == IsDigit(c)

\* the characters of the class [0-9+\-*/().]
IsAllowedChar(c) == IsDigit(c) \/ c \in {"+", "-", "*", "/", "(", ")", "."}

\* mathExpression.trim().replace(/[^0-9+\-*/().]/g, '')
Sanitize(mathExpression) == SelectSeq(Trim(mathExpression), IsAllowedChar)

----------------------------------------------------------------------------
(* State *)

VARIABLES
  messages,         \* Chatbot: the message list
  inputMessage,     \* Chatbot: the text of the textarea
  isLoading,        \* Chatbot: a query is in flight
  ollamaAvailable,  \* Chatbot: the result of the last availability probe
  isConnecting,     \* Chatbot: initializeChatbot is waiting for the probe
  showPipeline,     \* Chatbot: render the stage trace into the reply
  runs,             \* the invocations of sendMessage that were accepted, by number
  nAccepted,        \* how many invocations were accepted
  lastSend,         \* what the last invocation of sendMessage did
  nResets,          \* how often the reset button was pressed
  cur,              \* the invocation whose code is executing, 0 when the event loop is idle
  expr,             \* the argument of a call of executeMathExpression on its own
  exprParts,        \* the operands and operators expr was written from
  evalOut,          \* what that call returned
  palInterpreter    \* the interpreter object of line 79, as what its executeMathExpression
                    \* returns for each expression stage 1 can hand to it

sysVars == <<messages, inputMessage, isLoading, ollamaAvailable, isConnecting, showPipeline,
             runs, nAccepted, lastSend, nResets, cur>>

evalVars == <<expr, exprParts, evalOut, palInterpreter>>

vars == <<messages, inputMessage, isLoading, ollamaAvailable, isConnecting, showPipeline,
          runs, nAccepted, lastSend, nResets, cur, expr, exprParts, evalOut, palInterpreter>>

\* the number of queries a behaviour accepts
MaxQueries == 2

\* the number of times a behaviour presses reset
MaxResets == 1

\* the texts the user types
Inputs ==
  { <<" ", " ">>,
    <<"h", "i">>,
    <<" ", "A", "d", "d", " ", "2", "+", "2">> }

\* the texts the model service answers a generation request with
Responses ==
  { <<" ", "=", " ", "1", "2", "+", "5", "!", "\n">>,
    <<"2", "+">>,
    <<"?">>,
    <<"1", "2", "3", "4", "5", "6", "7", "8", "9", "0", "/", "0">> }

\* the ways a generation request fails: fetch rejects, or the status is not ok
Failures == {"Failed to fetch", "HTTP error! status"}

----------------------------------------------------------------------------
(* Stage records and the pipeline run *)

Stage1Record ==
  [stage |-> 1, name |-> "LLM: Extract Math Expression", status |-> "running",
   input |-> Undefined, output |-> Undefined, error |-> Undefined]

\* a variant of the stage-2 record that is pushed as pending
Stage2RecordPending(cleanedExpression) ==
  [stage |-> 2, name |-> "PAL: Execute Math", status |-> "pending",
   input |-> StrV(cleanedExpression), output |-> Undefined, error |-> Undefined]

Stage2Record(cleanedExpression) ==
  [stage |-> 2, name |-> "PAL: Execute Math", status |-> "running",
   input |-> StrV(cleanedExpression), output |-> Undefined, error |-> Undefined]

Stage3Record(userQuery, cleanedExpression, palResult) ==
  [stage |-> 3, name |-> "LLM: Format Response", status |-> "running",
   input |-> [k |-> "object", question |-> userQuery, expression |-> cleanedExpression,
              result |-> palResult.formatted],
   output |-> Undefined, error |-> Undefined]

\* the locals of one invocation of sendMessage and of the solveWithPipeline it calls;
\* prompt is the argument of its latest call of generate.
\* The last six fields record what the invocation did: whether it went through the
\* pipeline, whether the evaluator failed, the calls of generate and those that failed,
\* the messages it appended and those flagged as errors.
IdleRun ==
  [pc |-> "idle", currentInput |-> <<>>, stages |-> <<>>, mathExpression |-> Undefined,
   cleanedExpression |-> <<>>, palResult |-> Undefined, finalResponse |-> Undefined,
   response |-> Undefined, pipelineResult |-> Undefined, error |-> Undefined,
   showPipeline |-> TRUE, prompt |-> Undefined, viaPipeline |-> FALSE, palFailed |-> FALSE,
   generateCalls |-> 0, failedCalls |-> 0, replies |-> 0, errorReplies |-> 0]

\* an invocation that returned: its locals are gone, the record of what it did stays
Finished(r) ==
  [IdleRun EXCEPT !.pc = "done", !.viaPipeline = r.viaPipeline, !.palFailed = r.palFailed,
                  !.generateCalls = r.generateCalls,
                  !.failedCalls = r.failedCalls, !.replies = r.replies,
                  !.errorReplies = r.errorReplies]

Queries == 1..MaxQueries

\* the invocation is waiting for the gateway
Awaiting(r) == r.pc \in {"L163await", "L208await", "L342await"}

\* the invocation was accepted and has not returned
InFlight(r) == r.pc \notin {"idle", "done"}

----------------------------------------------------------------------------
(* OllamaService.solveWithPipeline, statement by statement.  Each operator is the     *)
(* effect of the statement at that line on the locals of the invocation; pc names     *)
(* the line that executes next.                                                       *)

\* the two prompt templates, with the values they embed
ExtractPrompt(userQuery) == [k |-> "extractPrompt", question |-> userQuery]

FormatPrompt(userQuery, cleanedExpression, palResult) ==
  [k |-> "formatPrompt", question |-> userQuery, expression |-> cleanedExpression,
   result |-> palResult.formatted]

L143(r) == [r EXCEPT !.stages = <<>>, !.pc = "L146"]

L146(r) == [r EXCEPT !.stages = Append(@, Stage1Record), !.pc = "L163"]

\* this.generate(extractPrompt, ...): the request is sent and the function waits
L163(r) ==
  [r EXCEPT !.prompt = ExtractPrompt(r.currentInput), !.generateCalls = @ + 1,
            !.pc = "L163await"]

L164(r) == [r EXCEPT !.cleanedExpression = Sanitize(r.mathExpression.s), !.pc = "L166"]

\* a variant that leaves the status of stage 1 as it is
L166Skipped(r) == [r EXCEPT !.pc = "L167"]

L166(r) == [r EXCEPT !.stages[1].status = "complete", !.pc = "L167"]

L167(r) == [r EXCEPT !.stages[1].output = StrV(r.cleanedExpression), !.pc = "L170"]

\* a variant that returns a failed run for an empty expression, without a stage 2
L170EmptyRejected(r) ==
  IF r.cleanedExpression = <<>>
  THEN [r EXCEPT !.pipelineResult = [stages |-> r.stages, success |-> FALSE,
                                     finalAnswer |-> Undefined],
                 !.pc = "L298"]
  ELSE [r EXCEPT !.stages = Append(@, Stage2Record(r.cleanedExpression)), !.pc = "L177"]

L170(r) == [r EXCEPT !.stages = Append(@, Stage2Record(r.cleanedExpression)), !.pc = "L177"]

L177(r) ==
  LET palResult == palInterpreter[r.cleanedExpression]
  IN [r EXCEPT !.palResult = palResult, !.palFailed = ~palResult.success, !.pc = "L179"]

L179(r) == [r EXCEPT !.pc = IF ~r.palResult.success THEN "L180" ELSE "L185"]

L180(r) == [r EXCEPT !.stages[2].status = "error", !.pc = "L181"]

\* a variant that does not record the error message
L181Skipped(r) == [r EXCEPT !.pc = "L182"]

L181(r) == [r EXCEPT !.stages[2].error = r.palResult.error, !.pc = "L182"]

\* a variant without the return: control falls through to line 185
L182FallThrough(r) == [r EXCEPT !.pc = "L185"]

\* return { stages, success: false }: sendMessage resumes at line 298
L182(r) ==
  [r EXCEPT !.pipelineResult = [stages |-> r.stages, success |-> FALSE, finalAnswer |-> Undefined],
            !.pc = "L298"]

L185(r) == [r EXCEPT !.stages[2].status = "complete", !.pc = "L186"]

\* a variant that writes the output into the record of stage 1
L186WrongStage(r) == [r EXCEPT !.stages[1].output = r.palResult.formatted, !.pc = "L189"]

L186(r) == [r EXCEPT !.stages[2].output = r.palResult.formatted, !.pc = "L189"]

L189(r) ==
  [r EXCEPT !.stages = Append(@, Stage3Record(r.currentInput, r.cleanedExpression, r.palResult)),
            !.pc = "L208"]

\* this.generate(formatPrompt, ...)
L208(r) ==
  [r EXCEPT !.prompt = FormatPrompt(r.currentInput, r.cleanedExpression, r.palResult),
            !.generateCalls = @ + 1, !.pc = "L208await"]

\* a variant that leaves the status of stage 3 as it is
L210Skipped(r) == [r EXCEPT !.pc = "L211"]

L210(r) == [r EXCEPT !.stages[3].status = "complete", !.pc = "L211"]

L211(r) == [r EXCEPT !.stages[3].output = StrV(Trim(r.finalResponse.s)), !.pc = "L213"]

\* return { stages, success: true, finalAnswer }
L213(r) ==
  [r EXCEPT !.pipelineResult = [stages |-> r.stages, success |-> TRUE,
                                finalAnswer |-> StrV(Trim(r.finalResponse.s))],
            !.pc = "L298"]

\* sendMessage: if (pipelineResult.success) ... else throw new Error(...)
L298(r) ==
  IF r.pipelineResult.success THEN [r EXCEPT !.pc = "L336"]
  ELSE [r EXCEPT !.error = Msg("Pipeline execution failed"), !.pc = "L353"]

\* sendMessage: ollamaService.generate(currentInput)
L342(r) ==
  [r EXCEPT !.prompt = StrV(r.currentInput), !.generateCalls = @ + 1, !.pc = "L342await"]

\* the statements that change nothing but the locals of the invocation
LocalPcs == {"L143", "L146", "L163", "L164", "L166", "L167", "L170", "L177", "L179", "L180",
             "L181", "L182", "L185", "L186", "L189", "L208", "L210", "L211", "L213", "L298",
             "L342"}

Statement(r) ==
  CASE r.pc = "L143" -> L143(r) [] r.pc = "L146" -> L146(r) [] r.pc = "L163" -> L163(r)
    [] r.pc = "L164" -> L164(r) [] r.pc = "L166" -> L166(r) [] r.pc = "L167" -> L167(r)
    [] r.pc = "L170" -> L170(r) [] r.pc = "L177" -> L177(r) [] r.pc = "L179" -> L179(r)
    [] r.pc = "L180" -> L180(r) [] r.pc = "L181" -> L181(r) [] r.pc = "L182" -> L182(r)
    [] r.pc = "L185" -> L185(r) [] r.pc = "L186" -> L186(r) [] r.pc = "L189" -> L189(r)
    [] r.pc = "L208" -> L208(r) [] r.pc = "L210" -> L210(r) [] r.pc = "L211" -> L211(r)
    [] r.pc = "L213" -> L213(r) [] r.pc = "L298" -> L298(r) [] r.pc = "L342" -> L342(r)

\* the gateway's generate returned text: the function that waited goes on
OnGenerateReturn(r, text) ==
  CASE r.pc = "L163await" -> [r EXCEPT !.mathExpression = StrV(text), !.pc = "L164"]
    [] r.pc = "L208await" -> [r EXCEPT !.finalResponse = StrV(text), !.pc = "L210"]
    [] r.pc = "L342await" -> [r EXCEPT !.response = StrV(text), !.pc = "L351"]

\* a variant in which solveWithPipeline catches the failure and returns a failed run
OnGenerateFailureCaught(r, failure) ==
  IF r.pc = "L342await"
  THEN [r EXCEPT !.failedCalls = @ + 1, !.error = Msg(failure), !.pc = "L353"]
  ELSE [r EXCEPT !.failedCalls = @ + 1, !.pc = "L298",
                 !.pipelineResult = [stages |-> r.stages, success |-> FALSE,
                                     finalAnswer |-> Undefined]]

\* a variant in which the call that failed is issued again
OnGenerateFailureRetried(r, failure) ==
  [r EXCEPT !.failedCalls = @ + 1,
            !.pc = CASE r.pc = "L163await" -> "L163"
                     [] r.pc = "L208await" -> "L208"
                     [] r.pc = "L342await" -> "L342"]

\* the gateway's generate threw: nothing in solveWithPipeline catches, so control is
\* in the catch clause of sendMessage
OnGenerateFailure(r, failure) ==
  [r EXCEPT !.failedCalls = @ + 1, !.error = Msg(failure), !.pc = "L353"]

----------------------------------------------------------------------------
(* Chatbot *)

UserMessage(q, content) ==
  [role |-> "user", q |-> q, content |-> StrV(content), isError |-> FALSE, isPipeline |-> FALSE]

AssistantMessage(q, content, isError, isPipeline) ==
  [role |-> "assistant", q |-> q, content |-> content, isError |-> isError,
   isPipeline |-> isPipeline]

Greeting == AssistantMessage(0, Msg("Hello! I am your AI assistant."), FALSE, FALSE)

ConnectionFailed == AssistantMessage(0, Msg("Ollama Connection Failed"), TRUE, FALSE)

\* responseContent: the trace of the stages and the final answer, or the final answer
ResponseContent(r) ==
  IF r.showPipeline
  THEN [k |-> "trace", stages |-> r.pipelineResult.stages,
        finalAnswer |-> r.pipelineResult.finalAnswer]
  ELSE r.pipelineResult.finalAnswer

\* if (!inputMessage.trim() || isLoading || !ollamaAvailable) return
SendRejected(input, loading, available) == Trim(input) = <<>> \/ loading \/ ~available

\* a variant of line 291 that leaves isLoading clear
LoadingOnAcceptKept == FALSE

\* setIsLoading(true)
LoadingOnAccept == TRUE

\* a variant of sendMessage that sends every accepted input to generate directly
SendMessageAllDirect ==
  /\ cur = 0
  /\ IF SendRejected(inputMessage, isLoading, ollamaAvailable)
     THEN /\ lastSend' = "rejected"
          /\ UNCHANGED <<messages, inputMessage, isLoading, runs, nAccepted, cur>>
     ELSE /\ nAccepted < MaxQueries
          /\ LET q == nAccepted + 1
                 currentInput == Trim(inputMessage)
             IN /\ messages' = Append(messages, UserMessage(q, currentInput))
                /\ runs' = [runs EXCEPT ![q] =
                              [IdleRun EXCEPT !.currentInput = currentInput,
                                              !.showPipeline = showPipeline,
                                              !.viaPipeline = isMathQuery(currentInput),
                                              !.pc = "L342"]]
                /\ nAccepted' = q
                /\ cur' = q
          /\ inputMessage' = <<>>
          /\ isLoading' = LoadingOnAccept
          /\ lastSend' = "accepted"
  /\ UNCHANGED <<ollamaAvailable, isConnecting, showPipeline, nResets, evalVars>>

\* sendMessage up to its first await.  The handler is bound to the button and to Enter
\* in the textarea; it is let run in every state, enabled control or not.
SendMessage ==
  /\ cur = 0
  /\ IF SendRejected(inputMessage, isLoading, ollamaAvailable)
     THEN /\ lastSend' = "rejected"
          /\ UNCHANGED <<messages, inputMessage, isLoading, runs, nAccepted, cur>>
     ELSE /\ nAccepted < MaxQueries
          /\ LET q == nAccepted + 1
                 currentInput == Trim(inputMessage)
             IN /\ messages' = Append(messages, UserMessage(q, currentInput))
                /\ runs' = [runs EXCEPT ![q] =
                              [IdleRun EXCEPT !.currentInput = currentInput,
                                              !.showPipeline = showPipeline,
                                              !.viaPipeline = isMathQuery(currentInput),
                                              !.pc = IF isMathQuery(currentInput)
                                                     THEN "L143" ELSE "L342"]]
                /\ nAccepted' = q
                /\ cur' = q
          /\ inputMessage' = <<>>
          /\ isLoading' = LoadingOnAccept
          /\ lastSend' = "accepted"
  /\ UNCHANGED <<ollamaAvailable, isConnecting, showPipeline, nResets, evalVars>>

\* a statement of the running invocation that touches its locals only; at an await
\* the invocation leaves the thread
LocalStep(q) ==
  /\ cur = q
  /\ runs[q].pc \in LocalPcs
  /\ runs' = [runs EXCEPT ![q] = Statement(runs[q])]
  /\ cur' = IF Awaiting(Statement(runs[q])) THEN 0 ELSE q
  /\ UNCHANGED <<messages, inputMessage, isLoading, ollamaAvailable, isConnecting,
                 showPipeline, nAccepted, lastSend, nResets, evalVars>>

\* a reply is appended: lines 328-336 (pipeline), 344-351 (direct), 355-362 (error)
Reply(r, q) ==
  CASE r.pc = "L336" -> AssistantMessage(q, ResponseContent(r), FALSE, TRUE)
    [] r.pc = "L351" -> AssistantMessage(q, r.response, FALSE, FALSE)
    [] r.pc = "L353" -> AssistantMessage(q, r.error, TRUE, FALSE)

\* a variant that writes the reply over the last message of the list
AppendReplyOverLast(q) ==
  /\ cur = q
  /\ runs[q].pc \in {"L336", "L351", "L353"}
  /\ messages' = IF messages = <<>> THEN <<Reply(runs[q], q)>>
                 ELSE [messages EXCEPT ![Len(messages)] = Reply(runs[q], q)]
  /\ runs' = [runs EXCEPT ![q].pc = "L364", ![q].replies = @ + 1,
                          ![q].errorReplies = IF runs[q].pc = "L353" THEN @ + 1 ELSE @]
  /\ UNCHANGED <<inputMessage, isLoading, ollamaAvailable, isConnecting, showPipeline,
                 nAccepted, lastSend, nResets, cur, evalVars>>

AppendReply(q) ==
  /\ cur = q
  /\ runs[q].pc \in {"L336", "L351", "L353"}
  /\ messages' = Append(messages, Reply(runs[q], q))
  /\ runs' = [runs EXCEPT ![q].pc = "L364", ![q].replies = @ + 1,
                          ![q].errorReplies = IF runs[q].pc = "L353" THEN @ + 1 ELSE @]
  /\ UNCHANGED <<inputMessage, isLoading, ollamaAvailable, isConnecting, showPipeline,
                 nAccepted, lastSend, nResets, cur, evalVars>>

\* a variant of line 364 that leaves isLoading set
LoadingOnFinallyKept == TRUE

\* setIsLoading(false)
LoadingOnFinally == FALSE

\* finally { setIsLoading(false) }, and sendMessage returns
Finally(q) ==
  /\ cur = q
  /\ runs[q].pc = "L364"
  /\ isLoading' = LoadingOnFinally
  /\ runs' = [runs EXCEPT ![q] = Finished(runs[q])]
  /\ cur' = 0
  /\ UNCHANGED <<messages, inputMessage, ollamaAvailable, isConnecting, showPipeline,
                 nAccepted, lastSend, nResets, evalVars>>

\* the model service answers a generation request
GenerateReturns(q) ==
  /\ cur = 0
  /\ Awaiting(runs[q])
  /\ \E text \in Responses : runs' = [runs EXCEPT ![q] = OnGenerateReturn(runs[q], text)]
  /\ cur' = q
  /\ UNCHANGED <<messages, inputMessage, isLoading, ollamaAvailable, isConnecting,
                 showPipeline, nAccepted, lastSend, nResets, evalVars>>

\* fetch rejects, or the response is not ok
GenerateFails(q) ==
  /\ cur = 0
  /\ Awaiting(runs[q])
  /\ \E failure \in Failures : runs' = [runs EXCEPT ![q] = OnGenerateFailure(runs[q], failure)]
  /\ cur' = q
  /\ UNCHANGED <<messages, inputMessage, isLoading, ollamaAvailable, isConnecting,
                 showPipeline, nAccepted, lastSend, nResets, evalVars>>

\* initializeChatbot after its await: isAvailable returned (false when the probe failed)
ProbeReturns ==
  /\ cur = 0
  /\ isConnecting
  /\ \E available \in BOOLEAN :
       /\ ollamaAvailable' = available
       /\ messages' = IF available THEN <<Greeting>> ELSE <<ConnectionFailed>>
  /\ isConnecting' = FALSE
  /\ UNCHANGED <<inputMessage, isLoading, showPipeline, runs, nAccepted, lastSend, nResets,
                 cur, evalVars>>

\* the reset button: setMessages([]); initializeChatbot().  While isConnecting the
\* component renders the spinner only, and there is no button.
Reset ==
  /\ cur = 0
  /\ ~isConnecting
  /\ nResets < MaxResets
  /\ messages' = <<>>
  /\ isConnecting' = TRUE
  /\ nResets' = nResets + 1
  /\ UNCHANGED <<inputMessage, isLoading, ollamaAvailable, showPipeline, runs, nAccepted,
                 lastSend, cur, evalVars>>

\* the textarea's onChange; the textarea is disabled={!ollamaAvailable || isLoading}
TypeInput ==
  /\ cur = 0
  /\ ~isConnecting /\ ollamaAvailable /\ ~isLoading
  /\ \E text \in Inputs : inputMessage' = text
  /\ UNCHANGED <<messages, isLoading, ollamaAvailable, isConnecting, showPipeline, runs,
                 nAccepted, lastSend, nResets, cur, evalVars>>

\* the pipeline toggle button
TogglePipeline ==
  /\ cur = 0
  /\ ~isConnecting
  /\ showPipeline' = ~showPipeline
  /\ UNCHANGED <<messages, inputMessage, isLoading, ollamaAvailable, isConnecting, runs,
                 nAccepted, lastSend, nResets, cur, evalVars>>

\* the state after the component mounted: the effect has called initializeChatbot
SysInit ==
  /\ messages = <<>>
  /\ inputMessage = <<>>
  /\ isLoading = FALSE
  /\ ollamaAvailable = FALSE
  /\ isConnecting = TRUE
  /\ showPipeline = TRUE
  /\ runs = [q \in Queries |-> IdleRun]
  /\ nAccepted = 0
  /\ lastSend = "none"
  /\ nResets = 0
  /\ cur = 0
  /\ palInterpreter = [e \in {Sanitize(t) : t \in Responses} |-> executeMathExpression(e)]

Init == SysInit /\ expr = <<>> /\ exprParts = <<>> /\ evalOut = Undefined

Next ==
  \/ SendMessage
  \/ TypeInput
  \/ TogglePipeline
  \/ Reset
  \/ ProbeReturns
  \/ \E q \in Queries : LocalStep(q)
  \/ \E q \in Queries : AppendReply(q)
  \/ \E q \in Queries : Finally(q)
  \/ \E q \in Queries : GenerateReturns(q)
  \/ \E q \in Queries : GenerateFails(q)

Spec == Init /\ [][Next]_vars

\* the event loop runs the continuation that is ready, and the request the gateway
\* sent is answered or fails
Progress ==
  \E q \in Queries :
    LocalStep(q) \/ AppendReply(q) \/ Finally(q) \/ GenerateReturns(q) \/ GenerateFails(q)

FairSpec == Init /\ [][Next]_vars /\ WF_vars(Progress)

----------------------------------------------------------------------------
(* executeMathExpression called on its own, on expressions written from operands   *)
(* and operators                                                                   *)

Operands ==
  { <<"1", "2", "3", "4", "5", "6", "7", "8", "9", "0">>,
    <<"0", "0", "0", "0", "0", "0", "0", "0", "1", "2">>,
    <<"1", "2", "3", "4", "5", " ", "6", "7", "8", "9", "0">>,
    <<"1", "2", "3", "4", "5", "6", "7", "8", "9">>,
    <<"1">>, <<"0">>, <<"1", ".", "5">> }

\* the operands after the second
MoreOperands == { <<"1">>, <<"1", "2", "3", "4", "5", "6", "7", "8", "9", "0">> }

Operators == { <<"+">>, <<"-">>, <<"*">>, <<"/">> }

\* the number of operators of the longest expression
MaxOperators == 2

\* the expressions with k operators, as the sequence of their operands and operators
RECURSIVE PartsWith(_)
PartsWith(k) ==
  IF k = 0 THEN { <<a>> : a \in Operands }
  ELSE IF k = 1 THEN { <<a, op, b>> : a \in Operands, op \in Operators, b \in Operands }
  ELSE { p \o <<op, c>> : p \in PartsWith(k - 1), op \in Operators, c \in MoreOperands }

RECURSIVE Flatten(_)
Flatten(parts) == IF parts = <<>> THEN <<>> ELSE Head(parts) \o Flatten(Tail(parts))

\* expressions over the characters of the sanitized class that are not written as
\* operand, operator, operand: signs, parentheses, fractions, results at and next to the
\* thresholds of formatNumber, and texts that are no arithmetic
OtherExpressions ==
  { <<"-", "1">>, <<"(", "1", "+", "2", ")", "*", "3">>, <<"-", "(", "1", ".", "5", ")">>,
    <<".", "5", "+", "1">>,
    <<"1", "0", "0", "0", "0", "0", "*", "1", "0", "0", "0", "0", "0">>,
    <<"1", "/", "1", "0", "0", "0", "0">>,
    <<"1", "0", "0", "0", "0", "0", "*", "1", "0", "0", "0", "0", "1">>,
    <<"1", "/", "1", "0", "0", "0", "1">>, <<"2", "/", "3">>, <<"1", "-", "-", "1">>, <<>>,
    <<"2", "+">>, <<"(", ")">>, <<"(", "1", "+", "2">>, <<"1", ".", ".", "5">>,
    <<"1", ".", "5", ".", "2">>, <<"1", "(", "2", ")">>, <<"1", "/", "/", "2">>,
    <<"/", "1", "/">>, <<"/", "1", "/", "-", "1">>,
    <<"1", "/", "*", "2", "*", "/", "+", "3">>, <<"+", "1">>, <<"1", "*", "*", "2">>,
    <<"/", "(", "/">>, <<"1", "+", "/", "1", "/">>, <<"-", "-", "1">>, <<"0", "1", "2">> }

EvalInit ==
  /\ SysInit
  /\ exprParts \in UNION { PartsWith(k) : k \in 0..MaxOperators }
                     \cup { <<e>> : e \in OtherExpressions }
  /\ expr = Flatten(exprParts)
  /\ evalOut = Undefined

\* palInterpreter.executeMathExpression(expr)
Evaluate ==
  /\ evalOut = Undefined
  /\ evalOut' = executeMathExpression(expr)
  /\ UNCHANGED <<sysVars, expr, exprParts, palInterpreter>>

EvalNext == Evaluate

EvalSpec == EvalInit /\ [][EvalNext]_vars

----------------------------------------------------------------------------
(* Properties of executeMathExpression, under EvalSpec *)

WithoutSpaces(s) == LET Visible(c) == c \notin {" ", "\n", "\t"} IN SelectSeq(s, Visible)

\* s holds n digits in a row
HasDigitRun(s, n) ==
  \E i \in 1..(Len(s) - n + 1) : \A h \in i..(i + n - 1) : IsDigit(s[h])

\* the operand is written with digits only
IsIntegerOperand(part) ==
  LET w == WithoutSpaces(part) IN w # <<>> /\ \A i \in 1..Len(w) : IsDigit(w[i])

OperandValue(part) == DigitsOf(WithoutSpaces(part))

\* exprParts is <integer> <op> <integer>
IsBinaryInteger ==
  Len(exprParts) = 3 /\ IsIntegerOperand(exprParts[1]) /\ IsIntegerOperand(exprParts[3])

\* what only the exact path returns: a decimal string, or one of its two errors
TookExactPath(out) ==
  \/ out.success /\ out.result.k = "string" /\ "s" \in DOMAIN out.result
  \/ ~out.success /\ out.error.text \in {"Complex expression not supported", "Division by zero"}

\* chars is the decimal numeral of the integer with that sign and magnitude, with no
\* leading zero and no fraction
IsNumeralOf(chars, neg, mag) ==
  /\ chars = (IF neg THEN <<"-">> ELSE <<>>) \o [i \in 1..Len(mag) |-> DigitChar(mag[i])]
  /\ mag = StripZeros(mag)

\* v with sign neg is a op b, told by the inverse operation
IsExactResult(neg, v, a, op, b) ==
  CASE op = "+" -> ~neg /\ NatLeq(b, v) /\ NatSub(v, b) = a
    [] op = "-" -> IF NatLeq(b, a) THEN ~neg /\ NatAdd(v, b) = a
                   ELSE neg /\ NatAdd(v, a) = b
    [] op = "*" -> ~neg /\ (IF b = NatZero THEN v = NatZero
                            ELSE NatMod(v, b) = NatZero /\ NatDiv(v, b) = a)
    [] op = "/" -> ~neg /\ NatLeq(NatMul(v, b), a) /\ NatLess(a, NatMul(NatAdd(v, NatOne), b))

\* the digits of a numeral, sign dropped
NumeralDigits(chars) ==
  LET body == IF chars # <<>> /\ Head(chars) = "-" THEN Tail(chars) ELSE chars
  IN [i \in 1..Len(body) |-> DigitVal(body[i])]

\* C9 (as stated): on the exact path an expression with more than one operator or a
\* non-integer operand fails with "Complex expression not supported", and only
\* <integer> <op> <integer> yields a value.
C9_OnlyBinaryIntegerEvaluates ==
  (evalOut # Undefined /\ HasDigitRun(WithoutSpaces(expr), 10)) =>
     /\ ~IsBinaryInteger =>
          ~evalOut.success /\ evalOut.error = Msg("Complex expression not supported")
     /\ evalOut.success => IsBinaryInteger

\* C10: the exact path is taken exactly for the expressions that hold 10 digits in a
\* row once the whitespace is stripped; there <a> <op> <b> gives the exact sum,
\* difference, product or truncated quotient as its decimal numeral (no quotient
\* exists for a zero divisor, and none is returned).
C10_ExactPathIffTenDigits ==
  evalOut # Undefined =>
     /\ TookExactPath(evalOut) <=> HasDigitRun(WithoutSpaces(expr), 10)
     /\ (IsBinaryInteger /\ HasDigitRun(WithoutSpaces(expr), 10)) =>
          LET a  == OperandValue(exprParts[1])
              op == exprParts[2][1]
              b  == OperandValue(exprParts[3])
          IN IF op = "/" /\ b = NatZero THEN ~evalOut.success
             ELSE /\ evalOut.success
                  /\ evalOut.formatted = evalOut.result
                  /\ LET chars == evalOut.result.s
                         neg   == chars # <<>> /\ Head(chars) = "-"
                         v     == NumeralDigits(chars)
                     IN IsNumeralOf(chars, neg, v) /\ IsExactResult(neg, v, a, op, b)
     /\ expr = <<"1", "2", "3", "4", "5", "6", "7", "8", "9", "0", "+", "1">> => evalOut.result = StrV(<<"1", "2", "3", "4", "5", "6", "7", "8", "9", "1">>)

\* C10 witness: "1234567890+1" was evaluated on the exact path and gave "1234567891"
C10_Witness ==
  /\ evalOut # Undefined
  /\ expr = <<"1", "2", "3", "4", "5", "6", "7", "8", "9", "0", "+", "1">>
  /\ evalOut.success /\ evalOut.result = StrV(<<"1", "2", "3", "4", "5", "6", "7", "8", "9", "1">>)

----------------------------------------------------------------------------
(* Properties of solveWithPipeline and sendMessage, under Spec and FairSpec *)

Terminal(stage) == stage.status \in {"complete", "error"}

\* the invocation holds a run that solveWithPipeline returned
Returned(r) == r.pipelineResult # Undefined

\* C1: stage n+1 is in the stage list only when stage n is complete or error, and the
\* stages are numbered in order; so no stage is pushed while an earlier one runs.
C1_StagesSequential ==
  \A q \in Queries :
    \A i \in 1..Len(runs[q].stages) :
      /\ runs[q].stages[i].stage = i
      /\ i < Len(runs[q].stages) => Terminal(runs[q].stages[i])

\* C1 witness: stage 3 is running, after stages 1 and 2
C1_Witness ==
  \E q \in Queries :
    Len(runs[q].stages) = 3 /\ runs[q].stages[3].status = "running"

\* C2: once the evaluator has failed on the Stage-1 output, the invocation never holds
\* a third stage and never calls generate again, and the run it returns has exactly the
\* stages (complete, error), success false and no final answer.
C2_ShortCircuit ==
  \A q \in Queries :
    runs[q].palFailed =>
      /\ Len(runs[q].stages) <= 2
      /\ runs[q].generateCalls = 1
      /\ Returned(runs[q]) =>
           /\ Len(runs[q].pipelineResult.stages) = 2
           /\ runs[q].pipelineResult.stages[1].status = "complete"
           /\ runs[q].pipelineResult.stages[2].status = "error"
           /\ runs[q].pipelineResult.success = FALSE
           /\ runs[q].pipelineResult.finalAnswer = Undefined

\* C2 witness: a run was returned after the evaluator failed
C2_Witness ==
  \E q \in Queries : runs[q].palFailed /\ Returned(runs[q]) /\ runs[q].pc = "L298"

\* C3: a returned run has success true exactly when it holds three stages that are
\* all complete.
C3_SuccessIffAllComplete ==
  \A q \in Queries :
    Returned(runs[q]) =>
      (runs[q].pipelineResult.success
         <=> /\ Len(runs[q].pipelineResult.stages) = 3
             /\ \A i \in 1..3 : runs[q].pipelineResult.stages[i].status = "complete")

\* C3 witness: a run was returned with success true
C3_Witness ==
  \E q \in Queries : Returned(runs[q]) /\ runs[q].pipelineResult.success

\* C4 (as stated): once a stage is complete or error, no step changes any field of
\* its record.
C4_TerminalStageFrozen ==
  [][\A q \in Queries :
       \A i \in 1..Len(runs[q].stages) :
         (Terminal(runs[q].stages[i]) /\ i <= Len(runs'[q].stages))
            => runs'[q].stages[i] = runs[q].stages[i]]_vars

\* the record of a finished stage is whole: a complete stage has its output, an error
\* stage its message
StageFinal(stage) ==
  /\ stage.status = "complete" => stage.output # Undefined
  /\ stage.status = "error" => stage.error # Undefined

\* C4 (amended): once a stage is complete or error, its status and input never change
\* and its output and error never change once set; the one field written after the
\* status is the output (of a complete stage) or the error (of an error stage), by the
\* next statement, so whenever solveWithPipeline waits at an await or has returned,
\* every complete or error stage is final and stays as it is.
C4_TerminalStageWriteOnce ==
  /\ [](\A q \in Queries :
          (cur # q \/ Returned(runs[q])) =>
             \A i \in 1..Len(runs[q].stages) : StageFinal(runs[q].stages[i]))
  /\ [][\A q \in Queries :
          \A i \in 1..Len(runs[q].stages) :
            (Terminal(runs[q].stages[i]) /\ i <= Len(runs'[q].stages)) =>
               LET old == runs[q].stages[i]
                   new == runs'[q].stages[i]
               IN /\ new.status = old.status
                  /\ new.input = old.input
                  /\ new.stage = old.stage /\ new.name = old.name
                  /\ old.output # Undefined => new.output = old.output
                  /\ old.error # Undefined => new.error = old.error
                  /\ StageFinal(old) => new = old]_vars

\* C4 witness: stage 1 is complete with its output while stage 3 runs
C4_Witness ==
  \E q \in Queries :
    /\ Len(runs[q].stages) = 3
    /\ runs[q].stages[1].status = "complete"
    /\ runs[q].stages[1].output # Undefined
    /\ runs[q].pc = "L208await"

Last(seq) == seq[Len(seq)]

\* C5: when a generate call of a pipeline run fails, solveWithPipeline returns no run,
\* and sendMessage appends exactly one assistant message, flagged as an error.
C5_GenerateFailurePropagates ==
  \A q \in Queries :
    (runs[q].viaPipeline /\ runs[q].failedCalls > 0) =>
      /\ ~Returned(runs[q])
      /\ runs[q].failedCalls = 1
      /\ runs[q].pc \in {"L353", "L364", "done"}
      /\ runs[q].pc = "L353" => runs[q].replies = 0
      /\ runs[q].pc \in {"L364", "done"} => runs[q].replies = 1 /\ runs[q].errorReplies = 1
      /\ runs[q].pc = "L364" =>
           /\ messages # <<>>
           /\ Last(messages).role = "assistant" /\ Last(messages).q = q
           /\ Last(messages).isError
           /\ Last(messages).content \in {Msg(f) : f \in Failures}

\* C5 witness: the generate call of stage 3 failed and the invocation has ended
C5_Witness ==
  \E q \in Queries :
    /\ runs[q].viaPipeline /\ runs[q].generateCalls = 2 /\ runs[q].failedCalls = 1
    /\ runs[q].pc = "done"

\* C6: a failure of the evaluator is not thrown: solveWithPipeline goes on to return a
\* run whose stage 2 is error with the evaluator's message; stage 1 stays as it was
\* completed, no stage is added and no request is sent.
C6_EvaluationFailureRecovered ==
  \A q \in Queries :
    (runs[q].palFailed /\ InFlight(runs[q])) =>
      /\ runs[q].pc \in {"L179", "L180", "L181", "L182", "L298", "L353", "L364"}
      /\ runs[q].error \in {Undefined, Msg("Pipeline execution failed")}
      /\ runs[q].pc \in {"L298", "L353", "L364"} =>
           /\ Returned(runs[q])
           /\ runs[q].pipelineResult.success = FALSE
           /\ runs[q].pipelineResult.stages =
                << [Stage1Record EXCEPT !.status = "complete",
                                        !.output = StrV(runs[q].cleanedExpression)],
                   [Stage2Record(runs[q].cleanedExpression)
                      EXCEPT !.status = "error", !.error = runs[q].palResult.error] >>
           /\ runs[q].palResult.error.k = "message"
      /\ runs[q].generateCalls = 1

\* C6 witness: a run was returned whose stage 2 carries the exact path's
\* "Division by zero"
C6_Witness ==
  \E q \in Queries :
    /\ Returned(runs[q]) /\ ~runs[q].pipelineResult.success
    /\ runs[q].pipelineResult.stages[2].error = Msg("Division by zero")

NumInFlight == Cardinality({q \in Queries : InFlight(runs[q])})

\* C7: while isLoading is true an invocation of sendMessage changes nothing and no
\* query is accepted; isLoading is true while an invocation is in flight, so at most
\* one is in flight at any time.
C7_NoOverlappingRuns ==
  /\ [](NumInFlight <= 1 /\ (NumInFlight = 1 => isLoading))
  /\ [][isLoading =>
          /\ nAccepted' = nAccepted
          /\ SendMessage => UNCHANGED <<messages, inputMessage, isLoading, runs>>]_vars

\* C7 witness: sendMessage was invoked and rejected while a query waits for the gateway
C7_Witness ==
  /\ isLoading /\ lastSend = "rejected"
  /\ \E q \in Queries : Awaiting(runs[q])

\* C8: every accepted query ends with one assistant message appended for it and
\* isLoading false, whatever failed, when every request is answered or fails.
C8_EveryQueryResolves ==
  \A q \in Queries :
    InFlight(runs[q]) ~> (runs[q].pc = "done" /\ runs[q].replies = 1 /\ ~isLoading)

\* C8 witness: a query whose pipeline failed in stage 2 has ended, and the next query
\* was accepted
C8_Witness ==
  /\ runs[1].pc = "done" /\ runs[1].palFailed /\ runs[1].replies = 1
  /\ nAccepted = 2

\* the characters the sanitized expression may hold
AllowedClass ==
  {"0", "1", "2", "3", "4", "5", "6", "7", "8", "9", "+", "-", "*", "/", "(", ")", "."}

\* raw with every character outside the class removed, the others in their order: the
\* k-th character is the one at the k-th position of raw that holds an allowed one
KeptInOrder(raw) ==
  LET kept == {i \in 1..Len(raw) : raw[i] \in AllowedClass}
  IN [n \in 1..Cardinality(kept) |->
        raw[CHOOSE i \in kept : Cardinality({j \in kept : j <= i}) = n]]

\* the stage list records what C11 says of the raw text of stage 1
\* what is kept of each text the model service can return
KeptOfResponse == [raw \in Responses |-> KeptInOrder(raw)]

SanitizedIn(stages, raw) ==
  /\ (Len(stages) >= 1 /\ stages[1].output # Undefined) =>
        /\ stages[1].output = StrV(KeptOfResponse[raw])
        /\ \A i \in 1..Len(stages[1].output.s) : stages[1].output.s[i] \in AllowedClass
  /\ Len(stages) >= 2 => stages[2].input = StrV(KeptOfResponse[raw])

\* C11: for the raw text generate returned in stage 1, the string recorded as the
\* output of stage 1, handed to the evaluator and recorded as the input of stage 2
\* holds only characters of the class and is the raw text without its other
\* characters, in order.
C11_SanitizedExpression ==
  \A q \in Queries :
    (runs[q].mathExpression # Undefined /\ runs[q].pc # "L164") =>
      /\ runs[q].cleanedExpression = KeptOfResponse[runs[q].mathExpression.s]
      /\ SanitizedIn(runs[q].stages, runs[q].mathExpression.s)
      /\ runs[q].palResult # Undefined =>
           runs[q].palResult = palInterpreter[KeptOfResponse[runs[q].mathExpression.s]]
      /\ Returned(runs[q]) =>
           SanitizedIn(runs[q].pipelineResult.stages, runs[q].mathExpression.s)

\* C11 witness: generate returned " = 12+5!\n" and the evaluator was handed "12+5"
C11_Witness ==
  \E q \in Queries :
    /\ runs[q].mathExpression = StrV(<<" ", "=", " ", "1", "2", "+", "5", "!", "\n">>)
    /\ runs[q].palResult # Undefined
    /\ Len(runs[q].stages) >= 2
    /\ runs[q].stages[1].output = StrV(<<"1", "2", "+", "5">>)
    /\ runs[q].stages[2].input = StrV(<<"1", "2", "+", "5">>)

\* the statements of solveWithPipeline from the return of the stage-1 generate call
\* to the call of the evaluator
AfterExtract == {"L164", "L166", "L167", "L170", "L177"}

\* stage 1 of the stage list is complete with the sanitized string as its output, and
\* stage 2 was started on that string
Stage2StartedOn(stages, cleaned) ==
  /\ Len(stages) >= 2
  /\ stages[1].status = "complete" /\ stages[1].output = StrV(cleaned)
  /\ stages[2].input = StrV(cleaned)

\* C12: once the generate call of stage 1 has returned, stage 1 becomes complete with
\* the sanitized string as its output and stage 2 is started on it and calls the
\* evaluator, whatever the string is; stage 1 is never an error, and a string the
\* evaluator rejects makes stage 2 the error stage of the returned run.
C12_ExtractAlwaysCompletes ==
  /\ \A q \in Queries :
       runs[q].pc = "L164" ~>
         /\ runs[q].pc = "L179"
         /\ Stage2StartedOn(runs[q].stages, Sanitize(runs[q].mathExpression.s))
         /\ runs[q].stages[2].status = "running"
         /\ runs[q].palResult = palInterpreter[Sanitize(runs[q].mathExpression.s)]
  /\ [](\A q \in Queries :
          /\ \A i \in 1..Len(runs[q].stages) : i = 1 => runs[q].stages[i].status # "error"
          /\ (runs[q].mathExpression # Undefined /\ runs[q].pc \notin AfterExtract) =>
               Stage2StartedOn(runs[q].stages, Sanitize(runs[q].mathExpression.s))
          /\ Returned(runs[q]) =>
               /\ Stage2StartedOn(runs[q].pipelineResult.stages,
                                  Sanitize(runs[q].mathExpression.s))
               /\ ~palInterpreter[Sanitize(runs[q].mathExpression.s)].success =>
                    runs[q].pipelineResult.stages[2].status = "error")

\* C12 witness: generate returned a text without any character of the class; stage 1
\* is complete with the empty string and stage 2 has failed on it
C12_Witness ==
  \E q \in Queries :
    /\ runs[q].mathExpression = StrV(<<"?">>)
    /\ Returned(runs[q])
    /\ runs[q].pipelineResult.stages[1].status = "complete"
    /\ runs[q].pipelineResult.stages[1].output = StrV(<<>>)
    /\ runs[q].pipelineResult.stages[2].status = "error"

\* the list after the step is the list before it, or that list with messages appended
Extends(before, after) ==
  /\ Len(after) >= Len(before)
  /\ SubSeq(after, 1, Len(before)) = before

\* C13 (as stated): under every sequence of operations of the controller the message
\* list only grows by appending; no message of the list is removed, replaced or modified.
C13_AppendOnly == [][Extends(messages, messages')]_vars

\* C13 (amended): sendMessage and the completion or failure of a run append one message
\* and leave the messages of the list as they are; the reset button empties the list,
\* and the return of the availability probe replaces the list by the greeting or by the
\* connection-failure message.
C13_AppendOnlyBetweenResets ==
  [][ \/ /\ nResets' = nResets + 1
         /\ messages' = <<>>
      \/ /\ nResets' = nResets
         /\ isConnecting /\ ~isConnecting'
         /\ messages' \in {<<Greeting>>, <<ConnectionFailed>>}
      \/ /\ nResets' = nResets
         /\ isConnecting' = isConnecting
         /\ Extends(messages, messages')
         /\ Len(messages') <= Len(messages) + 1 ]_vars

\* C13 witness: after a reset and its greeting, a query and its reply were appended
C13_Witness ==
  /\ nResets = 1
  /\ Len(messages) = 3
  /\ messages[1] = Greeting
  /\ messages[2].role = "user"
  /\ messages[3].role = "assistant" /\ messages[3].q = messages[2].q

\* the records of the stages that call generate (1: extract, 3: format)
LLMStages(stages) == {i \in 1..Len(stages) : stages[i].stage \in {1, 3}}

\* C14: no generation request is retried.  A query answered directly calls generate at
\* most once; a pipeline run calls it at most once for each of its LLM stages, so at
\* most twice; a call that failed is the last call of its query.
C14_NoRetry ==
  /\ [](\A q \in Queries :
          /\ runs[q].failedCalls <= 1
          /\ runs[q].failedCalls <= runs[q].generateCalls
          /\ ~runs[q].viaPipeline => runs[q].generateCalls <= 1
          /\ runs[q].viaPipeline => runs[q].generateCalls <= 2
          /\ (runs[q].viaPipeline /\ runs[q].pc \notin {"idle", "done"}
                /\ ~Returned(runs[q]) /\ runs[q].failedCalls = 0) =>
               runs[q].generateCalls <= Cardinality(LLMStages(runs[q].stages))
          /\ runs[q].failedCalls > 0 => ~Awaiting(runs[q]))
  /\ [][\A q \in Queries :
          runs[q].failedCalls > 0 => runs'[q].generateCalls = runs[q].generateCalls]_vars

\* C14 witness: a direct query whose only call failed and a pipeline query whose second
\* call failed have both finished
C14_Witness ==
  \E q1, q2 \in Queries :
    /\ runs[q1].pc = "done" /\ ~runs[q1].viaPipeline
    /\ runs[q1].generateCalls = 1 /\ runs[q1].failedCalls = 1
    /\ runs[q2].pc = "done" /\ runs[q2].viaPipeline
    /\ runs[q2].generateCalls = 2 /\ runs[q2].failedCalls = 1

\* the positions of sendMessage on its direct path, and those of the pipeline path
DirectPcs == {"L342", "L342await", "L351"}

PipelinePcs ==
  {"L143", "L146", "L163", "L163await", "L164", "L166", "L167", "L170", "L177", "L179",
   "L180", "L181", "L182", "L185", "L186", "L189", "L208", "L208await", "L210", "L211",
   "L213", "L298", "L336"}

\* what isMathQuery says of each input that sendMessage accepts
ClassOfInput == [t \in {Trim(i) : i \in Inputs} \ {<<>>} |-> isMathQuery(t)]

\* C15: sendMessage routes every accepted input by isMathQuery.  An input classified as
\* math runs solveWithPipeline once and never calls generate directly; any other input
\* calls generate once with the input itself as the prompt, creates no stage record,
\* and the text generate returned is the content of the assistant message appended.
C15_RoutedByClassifier ==
  \A q \in Queries :
    /\ InFlight(runs[q]) =>
         /\ runs[q].currentInput \in DOMAIN ClassOfInput
         /\ runs[q].viaPipeline = ClassOfInput[runs[q].currentInput]
         /\ runs[q].replies <= 1
    /\ (InFlight(runs[q]) /\ ClassOfInput[runs[q].currentInput]) =>
         /\ runs[q].pc \notin DirectPcs
         /\ runs[q].generateCalls <= 2
         /\ runs[q].prompt # Undefined =>
              /\ runs[q].prompt.k \in {"extractPrompt", "formatPrompt"}
              /\ runs[q].prompt.question = runs[q].currentInput
         /\ runs[q].response = Undefined
    /\ (InFlight(runs[q]) /\ ~ClassOfInput[runs[q].currentInput]) =>
         /\ runs[q].pc \notin PipelinePcs
         /\ runs[q].stages = <<>> /\ runs[q].pipelineResult = Undefined
         /\ runs[q].generateCalls = (IF runs[q].pc = "L342" THEN 0 ELSE 1)
         /\ runs[q].pc # "L342" => runs[q].prompt = StrV(runs[q].currentInput)
         /\ runs[q].pc = "L351" => runs[q].response.s \in Responses
         /\ (runs[q].pc = "L364" /\ runs[q].failedCalls = 0) =>
              /\ runs[q].response.s \in Responses
              /\ messages # <<>>
              /\ Last(messages).role = "assistant" /\ Last(messages).q = q
              /\ Last(messages).content = runs[q].response
              /\ ~Last(messages).isError /\ ~Last(messages).isPipeline
    /\ (runs[q].pc = "done" /\ ~runs[q].viaPipeline) =>
         runs[q].generateCalls = 1 /\ runs[q].replies = 1
    /\ (runs[q].pc = "done" /\ runs[q].viaPipeline) => runs[q].replies = 1

\* C15 witness: the input "Add 2+2" went through the pipeline, then the input "hi" went
\* to generate as it is and the text returned was appended
C15_Witness ==
  \E q1, q2 \in Queries :
    /\ runs[q1].pc = "L364" /\ runs[q1].currentInput = <<"h", "i">>
    /\ runs[q1].prompt = StrV(<<"h", "i">>) /\ runs[q1].failedCalls = 0
    /\ Last(messages).content = runs[q1].response
    /\ runs[q2].pc = "done" /\ runs[q2].viaPipeline /\ runs[q2].generateCalls = 2

\* the two thresholds of formatNumber as numbers
SmallThreshold == Fin(FALSE, NatOne, Pow10(SmallExp))

LargeThreshold == Fin(FALSE, Pow10(LargeExp), NatOne)

\* the characters are a numeral in scientific notation with f fraction digits
IsScientific(chars, f) ==
  LET body == IF chars # <<>> /\ Head(chars) = "-" THEN Tail(chars) ELSE chars
  IN /\ Len(body) >= f + 5
     /\ IsDigit(body[1]) /\ body[2] = "."
     /\ \A i \in 3..(f + 2) : IsDigit(body[i])
     /\ body[f + 3] = "e" /\ body[f + 4] \in {"+", "-"}
     /\ \A i \in (f + 5)..Len(body) : IsDigit(body[i])

\* y is x rounded to f decimal places
IsRoundedTo(y, x, f) ==
  /\ y.k = "number" /\ y.c = "fin"
  /\ NumEq(NumMul(y, Fin(FALSE, Pow10(f), NatOne)),
           MathRound(NumMul(x, Fin(FALSE, Pow10(f), NatOne))))

\* C16: formatNumber renders a finite numeric result in scientific notation with 4
\* fraction digits exactly when its magnitude is non-zero and below 1e-4, or above
\* 1e10; every other result, zero and the magnitudes 1e-4 and 1e10 included, is
\* rendered as a plain decimal rounded to 6 decimal places.
C16_ScientificOutsideRangeOnly ==
  (/\ evalOut # Undefined /\ evalOut.success
   /\ evalOut.result.k = "number" /\ evalOut.result.c = "fin") =>
    IF \/ ~IsZero(evalOut.result) /\ AbsLess(evalOut.result, SmallThreshold)
       \/ AbsLess(LargeThreshold, evalOut.result)
    THEN evalOut.formatted.k = "string" /\ IsScientific(evalOut.formatted.s, ExpDigits)
    ELSE IsRoundedTo(evalOut.formatted, evalOut.result, RoundDigits)

\* C17: every successful result of executeMathExpression carries a finite number or
\* the decimal numeral of an integer; an expression whose value is not finite ("1/0",
\* "0/0") gives no successful result.
C17_SuccessIsFinite ==
  (evalOut # Undefined /\ evalOut.success) =>
    \/ evalOut.result.k = "number" /\ evalOut.result.c = "fin"
    \/ /\ evalOut.result.k = "string" /\ "s" \in DOMAIN evalOut.result
       /\ IsNumeralOf(evalOut.result.s,
                      evalOut.result.s # <<>> /\ Head(evalOut.result.s) = "-",
                      NumeralDigits(evalOut.result.s))

\* the position after the numeric literal that starts at i (digits, digits.digits,
\* digits. or .digits), or 0 when there is none
WfLiteral(s, i) ==
  IF i <= Len(s) /\ IsDigit(s[i])
  THEN IF DigitRunEnd(s, i) < Len(s) /\ s[DigitRunEnd(s, i) + 1] = "."
       THEN DigitRunEnd(s, DigitRunEnd(s, i) + 2) + 1
       ELSE DigitRunEnd(s, i) + 1
  ELSE IF i < Len(s) /\ s[i] = "." /\ IsDigit(s[i + 1]) THEN DigitRunEnd(s, i + 1) + 1
  ELSE 0

\* arithmetic expressions: sums and differences of products and quotients of factors; a
\* factor is a literal, a parenthesized expression, or a factor with a minus sign.
\* Each operator gives the position after what it reads from position i, or 0.
RECURSIVE WfExpression(_, _), WfExpressionRest(_, _), WfTerm(_, _), WfTermRest(_, _),
          WfFactor(_, _), WfClosed(_, _)

WfExpression(s, i) == WfExpressionRest(s, WfTerm(s, i))

WfExpressionRest(s, j) ==
  IF j = 0 THEN 0
  ELSE IF j <= Len(s) /\ s[j] \in {"+", "-"} THEN WfExpressionRest(s, WfTerm(s, j + 1))
  ELSE j

WfTerm(s, i) == WfTermRest(s, WfFactor(s, i))

WfTermRest(s, j) ==
  IF j = 0 THEN 0
  ELSE IF j <= Len(s) /\ s[j] \in {"*", "/"} THEN WfTermRest(s, WfFactor(s, j + 1))
  ELSE j

WfFactor(s, i) ==
  IF i > Len(s) THEN 0
  ELSE IF s[i] = "-" THEN WfFactor(s, i + 1)
  ELSE IF s[i] = "(" THEN WfClosed(s, WfExpression(s, i + 1))
  ELSE WfLiteral(s, i)

WfClosed(s, j) == IF j # 0 /\ j <= Len(s) /\ s[j] = ")" THEN j + 1 ELSE 0

\* s is a well-formed arithmetic expression
WellFormed(s) == WfExpression(s, 1) = Len(s) + 1

\* C18: on the floating-point path every string over the sanitized class that is not a
\* well-formed arithmetic expression (numeric literals, + - * /, unary minus,
\* parentheses) gives a failure, and nothing but arithmetic is evaluated: a result is
\* a number.
C18_OnlyArithmeticEvaluates ==
  (/\ evalOut # Undefined
   /\ \A i \in 1..Len(expr) : expr[i] \in AllowedClass
   /\ ~HasDigitRun(expr, LargeDigits)) =>
    /\ ~WellFormed(expr) => ~evalOut.success
    /\ evalOut.success => evalOut.result.k = "number"

\* the stage list is well shaped: at most three records, numbered 1..k in order, each
\* running, complete or error, and only the last one may be running
WellShaped(stages) ==
  /\ Len(stages) <= 3
  /\ \A i \in 1..Len(stages) :
       /\ stages[i].stage = i
       /\ stages[i].status \in {"running", "complete", "error"}
       /\ stages[i].status = "running" => i = Len(stages)

\* C19: at every point of solveWithPipeline the stage list holds k <= 3 records with
\* the ordinals 1..k in order, at most one of them is running and it is the last, and
\* none is pending; a run that is returned holds complete and error stages only.
C19_StageListShape ==
  \A q \in Queries :
    /\ WellShaped(runs[q].stages)
    /\ Cardinality({i \in 1..Len(runs[q].stages) : runs[q].stages[i].status = "running"}) <= 1
    /\ Returned(runs[q]) =>
         /\ WellShaped(runs[q].pipelineResult.stages)
         /\ \A i \in 1..Len(runs[q].pipelineResult.stages) :
              runs[q].pipelineResult.stages[i].status \in {"complete", "error"}

\* C19 witness: one run was returned with three complete stages, and another with a
\* complete and an error stage
C19_Witness ==
  \E q1, q2 \in Queries :
    /\ runs[q1].pc = "done" /\ runs[q1].viaPipeline /\ runs[q1].palFailed
    /\ Returned(runs[q2]) /\ Len(runs[q2].pipelineResult.stages) = 3
    /\ \A i \in 1..3 : runs[q2].pipelineResult.stages[i].stage = i

\* the list holds the reply (answer or error message) of query q
HasReply(list, q) == \E i \in 1..Len(list) : list[i].role = "assistant" /\ list[i].q = q

\* each reply in the list comes after the user message of its query
RepliesFollowQueries(list) ==
  \A i \in 1..Len(list) :
    (list[i].role = "assistant" /\ list[i].q # 0) =>
      \E j \in 1..(i - 1) : list[j].role = "user" /\ list[j].q = list[i].q

\* C20: under every interleaving of sendMessage, the responses of the gateway and the
\* reset button, each answer or error message in the list comes after the user message
\* of its query, and the reply of a query that has finished is in the list unless the
\* reset button was pressed after the reply was appended: a query finishes with its
\* reply in the list, and only a press of the reset button takes a reply out.
C20_RepliesPairedAndKept ==
  /\ [](RepliesFollowQueries(messages))
  /\ [][\A q \in Queries :
          /\ (runs[q].pc # "done" /\ runs'[q].pc = "done") => HasReply(messages, q)
          /\ (HasReply(messages, q) /\ ~HasReply(messages', q)) => nResets' = nResets + 1]_vars

\* the step is an invocation of sendMessage that took effect: it accepted the input, or
\* it is the first rejection after an accepted one
SendStep == nAccepted' # nAccepted \/ lastSend' # lastSend

\* a generation request is sent in the step
GenerateIssued == \E q \in Queries : runs'[q].generateCalls > runs[q].generateCalls

\* sendMessage invoked with an empty or whitespace-only input, or while the backend is
\* recorded as unavailable, changes neither the message list nor the input text nor
\* isLoading, accepts no query and sends no request
RejectedSendIsFrame ==
  (SendStep /\ (Trim(inputMessage) = <<>> \/ ~ollamaAvailable)) =>
     /\ lastSend' = "rejected"
     /\ UNCHANGED <<messages, inputMessage, isLoading, runs, nAccepted>>

\* C21 (as stated): a sendMessage with an empty or whitespace-only input, or while the
\* backend is recorded as unavailable, leaves the message list, the input text and
\* isLoading unchanged and sends no generation request; hence no generation request is
\* ever sent while ollamaAvailable is false.
C21_NoGenerateWhileUnavailable ==
  [][RejectedSendIsFrame /\ (GenerateIssued => ollamaAvailable)]_vars

====
